---- MODULE Spec2Model ----
(***************************************************************************)
(* Model of src/tweet/main.go (the second program of the file, lines       *)
(* 132-285): the feed-to-Twitter pipeline.  An invocation is one call of   *)
(* tweetFeed; two invocations share the MongoDB collection "tweets".       *)
(* Every call that leaves the process (Twitter, MongoDB, the feed) is one  *)
(* step, and returns either its result or an error, as the Go signatures   *)
(* allow.  log.Fatal is os.Exit(1): the process ends on the spot, deferred *)
(* calls do not run and its goroutine dies with it.                        *)
(***************************************************************************)
EXTENDS Integers, Sequences, FiniteSets, TLC

\* Longest feed the model fetches.
MaxFeed == 2

\* How many calls, over all invocations, may answer with an error the program
\* survives (of Count, Insert and EnsureIndex, other than a duplicate key).  The
\* errors that are fatal need no bound: an invocation meets at most one.
MaxFaults == 1

\* The invocations (calls of tweetFeed) that may overlap.
Procs == {1, 2}

\* gofeed.Item: the two fields the program reads.
Items ==
  { [title |-> "X", link |-> "http://a"],
    [title |-> "Y", link |-> "http://b"] }

\* The feeds fetched: every sequence of items up to MaxFeed, up to renaming the
\* two items (a feed that is not empty starts with the first one).
Feeds ==
  { f \in UNION { [1..n -> Items] : n \in 0..MaxFeed } :
      Len(f) > 0 => f[1].link = "http://a" }

\* type Tweet: ID is assigned by the store, Timestamp is time.Now() of the insert.
Tweet(id, title, url, ts) == [id |-> id, title |-> title, url |-> url, ts |-> ts]

VARIABLES
  env,       \* os.Getenv("ENVIRONMENT")
  feed,      \* what the feed at RSS_FEED_URL holds
  store,     \* the documents of the collection "tweets"
  index,     \* whether the unique index on url exists
  clock,     \* source of ObjectIds and of time.Now()
  pc,        \* where each invocation stands
  items,     \* the result of getFeedItems() in each invocation
  i,         \* position of the range loop of tweetFeed (1-based)
  count,     \* the local count of tweetFeed
  open,      \* whether the session copy of tweetItem is open
  ops,       \* history: the calls each invocation made, with their results
  reported,  \* history: the counts each invocation logged at line 268
  gpc,       \* the goroutine `go ensureIndex(session)` of each invocation
  faults,    \* how many survived errors the calls have answered with so far
  before,    \* history: the invocations that had ended when each one began
  left       \* history: the collection as each invocation found it on returning

vars == <<env, feed, store, index, clock, pc, items, i, count, open, ops, reported, gpc,
          faults, before, left>>

\* One call in the history of an invocation.  had: for a Count() query, whether
\* the store held a document with that url when the query was made.
Op(op, idx, url, msg, res, had) ==
  [op |-> op, idx |-> idx, url |-> url, msg |-> msg, res |-> res, had |-> had]

\* tweets.Find(bson.M{"url": link}).Count() on a store that answers.
Count(s, link) == Cardinality({ t \in s : t.url = link })

\* fmt.Sprintf("%s\n%s", item.Title, item.Link)
TweetText(item) == item.title \o "\n" \o item.link

\* What mgo.Index{Unique: true, DropDups: true} leaves of a collection on a server
\* that honours DropDups: the first document of every url.
DropDups(s) == { t \in s : \A u \in s : u.url = t.url => t.id <= u.id }

\* A fresh deployment: no document, no index, no invocation begun.  What a later
\* invocation finds is what the earlier one left.
Init ==
  /\ env \in {"production", "development"}
  /\ feed \in Feeds
  /\ store = {}
  /\ index = FALSE
  /\ clock = 1
  /\ pc = [p \in Procs |-> "idle"]
  /\ items = [p \in Procs |-> << >>]
  /\ i = [p \in Procs |-> 0]
  /\ count = [p \in Procs |-> 0]
  /\ open = [p \in Procs |-> FALSE]
  /\ ops = [p \in Procs |-> << >>]
  /\ reported = [p \in Procs |-> << >>]
  /\ gpc = [p \in Procs |-> "none"]
  /\ faults = 0
  /\ before = [p \in Procs |-> {}]
  /\ left = [p \in Procs |-> {}]

\* log.Fatal: os.Exit(1).  The goroutine of the process, if still pending, dies.
Fatal(p) ==
  /\ pc' = [pc EXCEPT ![p] = "aborted"]
  /\ gpc' = [gpc EXCEPT ![p] = IF @ = "spawned" THEN "killed" ELSE @]

\* A call is recorded in the history.
Log(p, o) == ops' = [ops EXCEPT ![p] = Append(@, o)]

\* An error the program survives counts against MaxFaults.
Survived(failed) ==
  /\ failed => faults < MaxFaults
  /\ faults' = IF failed THEN faults + 1 ELSE faults

\* A variant of NextItem that steps over an item of the feed.
NextItemSkipping(p) ==
  /\ i' = [i EXCEPT ![p] = @ + 2]
  /\ pc' = [pc EXCEPT ![p] = IF i[p] + 2 > Len(items[p]) THEN "report" ELSE "exists"]

\* The range loop of tweetFeed moves to the next item, or leaves the loop.
NextItem(p) ==
  /\ i' = [i EXCEPT ![p] = @ + 1]
  /\ pc' = [pc EXCEPT ![p] = IF i[p] + 1 > Len(items[p]) THEN "report" ELSE "exists"]

\* A variant of VerifyFailed that logs the error and goes on to mgo.Dial.
VerifyFailedLogged(p) ==
  /\ pc' = [pc EXCEPT ![p] = "dial"]
  /\ UNCHANGED gpc

\* Lines 250-252: a failed VerifyCredentials is fatal.
VerifyFailed(p) == Fatal(p)

\* tweetFeed, lines 243-252: api.VerifyCredentials().
VerifyCredentials(p) ==
  /\ pc[p] = "idle"
  /\ \A q \in Procs : q < p => pc[q] # "idle"
  /\ \E ok \in BOOLEAN :
       /\ Log(p, Op("verify", 0, "", "", IF ok THEN "ok" ELSE "err", FALSE))
       /\ IF ok THEN pc' = [pc EXCEPT ![p] = "dial"] /\ UNCHANGED gpc
                ELSE VerifyFailed(p)
  /\ before' = [before EXCEPT ![p] = { q \in Procs : pc[q] \in {"done", "aborted"} }]
  /\ UNCHANGED <<env, feed, store, index, clock, items, i, count, open, reported, faults, left>>

\* tweetFeed, lines 254-259: mgo.Dial, fatal on error, then `go ensureIndex(session)`.
Dial(p) ==
  /\ pc[p] = "dial"
  /\ \E ok \in BOOLEAN :
       /\ Log(p, Op("dial", 0, "", "", IF ok THEN "ok" ELSE "err", FALSE))
       /\ IF ok THEN /\ pc' = [pc EXCEPT ![p] = "fetch"]
                     /\ gpc' = [gpc EXCEPT ![p] = "spawned"]
                ELSE Fatal(p)
  /\ UNCHANGED <<env, feed, store, index, clock, items, i, count, open, reported, faults, before, left>>

\* A variant of FeedFailed that logs the error and returns no items.
FeedFailedLogged(p) ==
  /\ items' = [items EXCEPT ![p] = << >>]
  /\ count' = [count EXCEPT ![p] = 0]
  /\ i' = [i EXCEPT ![p] = 1]
  /\ pc' = [pc EXCEPT ![p] = "report"]
  /\ UNCHANGED gpc

\* getFeedItems, lines 199-201: a failed ParseURL is fatal.
FeedFailed(p) ==
  /\ Fatal(p)
  /\ UNCHANGED <<items, count, i>>

\* tweetFeed, lines 261-262 with getFeedItems (195-204): count := 0 and fp.ParseURL.
GetFeedItems(p) ==
  /\ pc[p] = "fetch"
  /\ \E ok \in BOOLEAN :
       /\ Log(p, Op("fetch", 0, "", "", IF ok THEN "ok" ELSE "err", FALSE))
       /\ IF ok THEN /\ items' = [items EXCEPT ![p] = feed]
                     /\ count' = [count EXCEPT ![p] = 0]
                     /\ i' = [i EXCEPT ![p] = 1]
                     /\ pc' = [pc EXCEPT ![p] = IF Len(feed) = 0 THEN "report" ELSE "exists"]
                     /\ UNCHANGED gpc
                ELSE FeedFailed(p)
  /\ UNCHANGED <<env, feed, store, index, clock, open, reported, faults, before, left>>

\* A variant of Counted in which a failed Count() still tells what the store holds.
CountedDespiteError(ok, s, link) == Count(s, link)

\* Line 166-167: the count the program goes by.  The error of Count() is discarded,
\* and a failed Count() returns 0.
Counted(ok, s, link) == IF ok THEN Count(s, link) ELSE 0

\* tweetItem, lines 160-170: s.Copy(), the query, and the return of an item found
\* (with its deferred session.Close()).
Exists(p) ==
  /\ pc[p] = "exists"
  /\ LET item == items[p][i[p]]
         had  == Count(store, item.link) > 0
     IN \E ok \in BOOLEAN :
          LET n == Counted(ok, store, item.link) IN
          /\ Survived(~ok)
          /\ Log(p, Op("exists", i[p], item.link, "",
                       IF ~ok THEN "err" ELSE IF n > 0 THEN "found" ELSE "absent", had))
          /\ IF n > 0
               THEN /\ open' = [open EXCEPT ![p] = FALSE]
                    /\ NextItem(p)
               ELSE /\ open' = [open EXCEPT ![p] = TRUE]
                    /\ pc' = [pc EXCEPT ![p] = IF env # "development" THEN "post" ELSE "insert"]
                    /\ UNCHANGED i
  /\ UNCHANGED <<env, feed, store, index, clock, items, count, reported, gpc, before, left>>

\* A variant of PostFailed that logs the error and goes on to the insert.
PostFailedLogged(p) ==
  /\ pc' = [pc EXCEPT ![p] = "insert"]
  /\ UNCHANGED gpc

\* Lines 176-178: a failed PostTweet is fatal; the deferred Close() does not run.
PostFailed(p) == Fatal(p)

\* tweetItem, lines 173-179: api.PostTweet outside development.
PostTweet(p) ==
  /\ pc[p] = "post"
  /\ LET item == items[p][i[p]]
     IN \E ok \in BOOLEAN :
          /\ Log(p, Op("post", i[p], item.link, TweetText(item), IF ok THEN "ok" ELSE "err", FALSE))
          /\ IF ok THEN pc' = [pc EXCEPT ![p] = "insert"] /\ UNCHANGED gpc
                   ELSE PostFailed(p)
  /\ UNCHANGED <<env, feed, store, index, clock, items, i, count, open, reported, faults, before, left>>

\* What tweets.Insert can answer: the unique index refuses a second document of a
\* url; any insert can fail for another reason (the connection, the server).
InsertResults(s, ix, link) ==
  IF ix /\ Count(s, link) > 0 THEN {"dup", "err"} ELSE {"ok", "err"}

\* A variant of Insert in which a duplicate-key error is fatal.
InsertDupFatal(p) ==
  /\ pc[p] = "insert"
  /\ LET item == items[p][i[p]]
     IN \E res \in InsertResults(store, index, item.link) :
          /\ Survived(res = "err")
          /\ Log(p, Op("insert", i[p], item.link, "", res, FALSE))
          /\ store' = IF res = "ok"
                        THEN store \cup {Tweet(clock, item.title, item.link, clock)}
                        ELSE store
          /\ clock' = IF res = "ok" THEN clock + 1 ELSE clock
          /\ IF res = "dup"
               THEN Fatal(p) /\ UNCHANGED <<i, count>>
               ELSE /\ count' = [count EXCEPT ![p] = @ + 1]
                    /\ NextItem(p)
                    /\ UNCHANGED gpc
  /\ open' = [open EXCEPT ![p] = FALSE]
  /\ UNCHANGED <<env, feed, index, items, reported, before, left>>

\* A variant of Insert that returns true, and so counts the item, only when the
\* record was written.
InsertCountsRecorded(p) ==
  /\ pc[p] = "insert"
  /\ LET item == items[p][i[p]]
     IN \E res \in InsertResults(store, index, item.link) :
          /\ Survived(res = "err")
          /\ Log(p, Op("insert", i[p], item.link, "", res, FALSE))
          /\ store' = IF res = "ok"
                        THEN store \cup {Tweet(clock, item.title, item.link, clock)}
                        ELSE store
          /\ clock' = IF res = "ok" THEN clock + 1 ELSE clock
          /\ count' = [count EXCEPT ![p] = IF res = "ok" THEN @ + 1 ELSE @]
  /\ open' = [open EXCEPT ![p] = FALSE]
  /\ NextItem(p)
  /\ UNCHANGED <<env, feed, index, items, reported, gpc, before, left>>

\* tweetItem, lines 186-192: tweets.Insert, its error logged, return true with the
\* deferred session.Close(); then lines 264-266 of tweetFeed: count++.
Insert(p) ==
  /\ pc[p] = "insert"
  /\ LET item == items[p][i[p]]
     IN \E res \in InsertResults(store, index, item.link) :
          /\ Survived(res = "err")
          /\ Log(p, Op("insert", i[p], item.link, "", res, FALSE))
          /\ store' = IF res = "ok"
                        THEN store \cup {Tweet(clock, item.title, item.link, clock)}
                        ELSE store
          /\ clock' = IF res = "ok" THEN clock + 1 ELSE clock
  /\ open' = [open EXCEPT ![p] = FALSE]
  /\ count' = [count EXCEPT ![p] = @ + 1]
  /\ NextItem(p)
  /\ UNCHANGED <<env, feed, index, items, reported, gpc, before, left>>

\* tweetFeed, line 268: the count is logged and tweetFeed returns.  In development
\* main returns after it (lines 279-281) and the process ends; under lambda.Start
\* the process lives on.
Report(p) ==
  /\ pc[p] = "report"
  /\ reported' = [reported EXCEPT ![p] = Append(@, count[p])]
  /\ pc' = [pc EXCEPT ![p] = "done"]
  /\ gpc' = [gpc EXCEPT ![p] = IF env = "development" /\ @ = "spawned" THEN "killed" ELSE @]
  /\ left' = [left EXCEPT ![p] = store]
  /\ UNCHANGED <<env, feed, store, index, clock, items, i, count, open, ops, faults, before>>

\* ensureIndex, lines 207-225, run by the goroutine of line 259: any error is
\* logged.  With duplicates in the collection the server either drops them
\* (DropDups honoured) or refuses to build the index (DropDups ignored).
EnsureIndex(p) ==
  /\ gpc[p] = "spawned"
  /\ \/ /\ faults < MaxFaults
        /\ faults' = faults + 1
        /\ gpc' = [gpc EXCEPT ![p] = "err"]
        /\ UNCHANGED <<store, index>>
     \/ /\ index \/ DropDups(store) = store
        /\ index' = TRUE
        /\ gpc' = [gpc EXCEPT ![p] = "ok"]
        /\ UNCHANGED <<store, faults>>
     \/ /\ ~index /\ DropDups(store) # store
        /\ index' = TRUE
        /\ store' = DropDups(store)
        /\ gpc' = [gpc EXCEPT ![p] = "ok"]
        /\ UNCHANGED faults
     \/ /\ ~index /\ DropDups(store) # store
        /\ gpc' = [gpc EXCEPT ![p] = "err"]
        /\ UNCHANGED <<store, index, faults>>
  /\ UNCHANGED <<env, feed, clock, pc, items, i, count, open, ops, reported, before, left>>

Next ==
  \E p \in Procs :
    \/ VerifyCredentials(p)
    \/ Dial(p)
    \/ GetFeedItems(p)
    \/ Exists(p)
    \/ PostTweet(p)
    \/ Insert(p)
    \/ Report(p)
    \/ EnsureIndex(p)

Spec == Init /\ [][Next]_vars

\* The same program on a store whose calls never fail for a reason of their own:
\* Count answers, Insert fails only on a duplicate key, and EnsureIndex only over
\* duplicates the server will not drop.
NextReliable == Next /\ UNCHANGED faults

SpecReliable == Init /\ [][NextReliable]_vars

(***************************************************************************)
(* Reading the history.                                                    *)
(***************************************************************************)
\* The positions of the history of p that hold a call of that kind.
Calls(p, kind) == { k \in DOMAIN ops[p] : ops[p][k].op = kind }

\* The calls of p that belong to its item number n.
CallsFor(p, kind, n) == { k \in Calls(p, kind) : ops[p][k].idx = n }

\* The Publisher calls of p, in the order made.
PostsOf(p) == SelectSeq(ops[p], LAMBDA o : o.op = "post")

Urls(s) == { t.url : t \in s }

Links(f) == { f[k].link : k \in DOMAIN f }

DistinctLinks(f) == \A a, b \in DOMAIN f : f[a].link = f[b].link => a = b

\* Only p has run so far.
Alone(p) == \A q \in Procs \ {p} : pc[q] = "idle"

\* tweetItem has returned for item n of p.
Processed(p, n) == n \in DOMAIN items[p] /\ i[p] > n

(***************************************************************************)
(* The claims.                                                             *)
(***************************************************************************)

\* C1: idempotence.  When an invocation begins after another one has returned and
\* itself returns (the feed being the same), it leaves the records the first one
\* left, has made no Publisher call and reports a count of 0.
C1_Idempotence ==
  \A p, q \in Procs :
    (q \in before[p] /\ pc[q] = "done" /\ pc[p] = "done") =>
      /\ left[p] = left[q]
      /\ Calls(p, "post") = {}
      /\ reported[p] = <<0>>

\* C2: uniqueness.  No two records of the store share a url; and of two
\* invocations that both found a url absent and both inserted it, exactly one
\* insert succeeded and the other answered duplicate key.
C2_Uniqueness ==
  /\ \A a, b \in store : a.url = b.url => a = b
  /\ \A p, q \in Procs : \A n \in DOMAIN items[p], m \in DOMAIN items[q] :
       \A a \in CallsFor(p, "insert", n), b \in CallsFor(q, "insert", m) :
         (/\ p # q
          /\ ops[p][a].url = ops[q][b].url
          /\ \E e \in CallsFor(p, "exists", n) : ops[p][e].res = "absent"
          /\ \E e \in CallsFor(q, "exists", m) : ops[q][e].res = "absent")
         => {ops[p][a].res, ops[q][b].res} = {"ok", "dup"}

\* C3: fail-fast.  In production, when the only invocation so far works on a feed
\* of new items (distinct links, empty store) and the Publisher fails on item k,
\* the invocation has aborted, the records are exactly those of items 1..k-1, and
\* no call was made for an item after k.
C3_FailFast ==
  \A p \in Procs : \A k \in DOMAIN items[p] :
    (/\ env = "production"
     /\ Alone(p)
     /\ DistinctLinks(items[p])
     /\ \E c \in CallsFor(p, "post", k) : ops[p][c].res = "err")
    => /\ pc[p] = "aborted"
       /\ reported[p] = << >>
       /\ Urls(store) = { items[p][j].link : j \in 1..(k - 1) }
       /\ Cardinality(store) = k - 1
       /\ \A c \in DOMAIN ops[p] : ops[p][c].idx <= k

\* C4: dry-run neutrality.  In development no invocation calls the Publisher; every
\* item whose url had no record when it was checked leaves, once processed, a
\* record of that url in the store, and the count has one for each such item.
C4_DryRun ==
  env = "development" =>
    \A p \in Procs :
      /\ Calls(p, "post") = {}
      /\ \A n \in DOMAIN items[p] :
           (Processed(p, n) /\ \E e \in CallsFor(p, "exists", n) : ~ops[p][e].had)
           => Count(store, items[p][n].link) > 0
      /\ pc[p] \in {"report", "done"} =>
           count[p] = Cardinality({ n \in DOMAIN items[p] :
                                      \E e \in CallsFor(p, "exists", n) : ~ops[p][e].had })

\* C5: skip-on-duplicate.  For an item whose url had a record when it was checked,
\* the invocation makes no Publisher call and no insert, and the count has nothing
\* for it.
C5_SkipOnDuplicate ==
  \A p \in Procs :
    /\ \A n \in DOMAIN items[p] :
         (\E e \in CallsFor(p, "exists", n) : ops[p][e].had)
         => CallsFor(p, "post", n) = {} /\ CallsFor(p, "insert", n) = {}
    /\ count[p] <= Cardinality({ n \in DOMAIN items[p] :
                                   \E e \in CallsFor(p, "exists", n) : ~ops[p][e].had })

\* C6: end to end.  In production, when the only invocation so far started on the
\* empty store with a feed of n distinct links and has returned, it has made n
\* Publisher calls, the k-th with title, newline and link of item k, the store
\* holds one record per feed link, and the count reported is n.
C6_EndToEnd ==
  \A p \in Procs :
    (/\ env = "production"
     /\ Alone(p)
     /\ DistinctLinks(items[p])
     /\ pc[p] = "done")
    => /\ Len(PostsOf(p)) = Len(items[p])
       /\ \A k \in DOMAIN items[p] :
            /\ PostsOf(p)[k].idx = k
            /\ PostsOf(p)[k].res = "ok"
            /\ PostsOf(p)[k].msg = items[p][k].title \o "\n" \o items[p][k].link
       /\ Urls(store) = Links(items[p])
       /\ Cardinality(store) = Len(items[p])
       /\ reported[p] = <<Len(items[p])>>

\* C7: credentials gate everything.  The first call of an invocation is
\* VerifyCredentials; when it fails the invocation makes no other call, starts no
\* goroutine, fetches nothing and is over; every other call, the goroutine's
\* EnsureIndex and every item follow a VerifyCredentials that succeeded.
C7_CredentialGate ==
  \A p \in Procs :
    /\ ops[p] # << >> => ops[p][1].op = "verify"
    /\ Calls(p, "verify") \subseteq {1}
    /\ (ops[p] # << >> /\ ops[p][1].res = "err") =>
         /\ Len(ops[p]) = 1
         /\ pc[p] = "aborted"
         /\ gpc[p] = "none"
         /\ items[p] = << >> /\ i[p] = 0
         /\ reported[p] = << >>
    /\ (Len(ops[p]) > 1 \/ gpc[p] # "none" \/ i[p] > 0 \/ reported[p] # << >>) =>
         ops[p][1].res = "ok"

C7_Witness ==
  /\ \E p \in Procs : ops[p] # << >> /\ ops[p][1].res = "err"
  /\ \E p \in Procs : Calls(p, "insert") # {} /\ gpc[p] = "ok"

\* C8: a failed feed fetch is fatal.  After it the invocation is over: it has made
\* no exists query, no Publisher call and no insert, and has reported no count.
C8_FeedFailure ==
  \A p \in Procs : \A k \in Calls(p, "fetch") :
    ops[p][k].res = "err" =>
      /\ k = Len(ops[p])
      /\ pc[p] = "aborted"
      /\ Calls(p, "exists") = {} /\ Calls(p, "post") = {} /\ Calls(p, "insert") = {}
      /\ reported[p] = << >>

C8_Witness ==
  \E p \in Procs : \E k \in Calls(p, "fetch") : ops[p][k].res = "err"

\* C9: never record without having posted.  In production every insert of an
\* invocation directly follows a Publisher call of the same item and url that
\* succeeded, and every record of the store comes from such an insert.
C9_PostBeforeRecord ==
  env = "production" =>
    /\ \A p \in Procs : \A k \in Calls(p, "insert") :
         /\ k > 1
         /\ ops[p][k - 1].op = "post"
         /\ ops[p][k - 1].res = "ok"
         /\ ops[p][k - 1].idx = ops[p][k].idx
         /\ ops[p][k - 1].url = ops[p][k].url
    /\ \A t \in store : \E p \in Procs : \E k \in Calls(p, "insert") :
         /\ ops[p][k].res = "ok"
         /\ ops[p][k].url = t.url
         /\ \E c \in CallsFor(p, "post", ops[p][k].idx) :
              ops[p][c].res = "ok" /\ ops[p][c].url = t.url

C9_Witness ==
  /\ env = "production"
  /\ \E p \in Procs : \E k \in Calls(p, "insert") :
       ops[p][k].res = "ok" /\ Count(store, ops[p][k].url) > 0
  /\ \E p \in Procs : \E k \in Calls(p, "post") : ops[p][k].res = "err"

\* C10: never post without recording.  Once an item that was posted (or, in
\* development, would have been) is processed, the store holds a record of its url,
\* whatever the insert answered.
C10_RecordAfterPost ==
  \A p \in Procs : \A n \in DOMAIN items[p] :
    (/\ Processed(p, n)
     /\ \/ \E c \in CallsFor(p, "post", n) : ops[p][c].res = "ok"
        \/ env = "development" /\ CallsFor(p, "insert", n) # {})
    => Count(store, items[p][n].link) > 0

\* C11: records are never mutated or deleted.  No step, of an invocation or of an
\* ensureIndex goroutine, removes a record from the store or changes one: every
\* record of the store is in the store after the step, with its title, url and
\* timestamp.
C11_RecordsKept == [][\A t \in store : t \in store']_vars

\* No two invocations have overlapped: of any two, one had not begun, or had
\* ended, when the other began.
NonOverlapping ==
  \A p, q \in Procs :
    p # q => pc[p] = "idle" \/ pc[q] = "idle" \/ q \in before[p] \/ p \in before[q]

\* The Publisher calls for url u that succeeded, over all invocations.
PostedOk(u) ==
  { c \in UNION { { <<p, k>> : k \in Calls(p, "post") } : p \in Procs } :
      ops[c[1]][c[2]].res = "ok" /\ ops[c[1]][c[2]].url = u }

\* C12: at most one post per url without overlap.  In production, as long as no
\* two invocations have overlapped, the Publisher has succeeded at most once for
\* each url, also for a feed that holds a link more than once.
C12_OnePostPerUrl ==
  (env = "production" /\ NonOverlapping) =>
    \A u \in Links(feed) : Cardinality(PostedOk(u)) <= 1

\* The items of p that tweetItem has posted without error (in development: has
\* not skipped).
SentItems(p) ==
  { n \in DOMAIN items[p] :
      /\ Processed(p, n)
      /\ IF env = "development"
           THEN \E e \in CallsFor(p, "exists", n) : ops[p][e].res # "found"
           ELSE \E c \in CallsFor(p, "post", n) : ops[p][c].res = "ok" }

\* C13: the count is the number of items posted.  While an invocation is between
\* items, and when it reports, its count is the number of its items that were
\* posted without error (or, in development, not skipped): skipped items add
\* nothing, and what the insert answered plays no part.
C13_CountIsPosts ==
  \A p \in Procs :
    /\ pc[p] \in {"exists", "report", "done"} => count[p] = Cardinality(SentItems(p))
    /\ reported[p] # << >> => reported[p] = <<Cardinality(SentItems(p))>>

C13_Witness ==
  \E p \in Procs :
    /\ pc[p] = "done"
    /\ reported[p][1] >= 1
    /\ \E k \in Calls(p, "insert") : ops[p][k].res # "ok"
    /\ \E k \in Calls(p, "exists") : ops[p][k].res = "found"

\* The step of p is an Insert that the store refused with a duplicate-key error.
DupInsertStep(p) ==
  /\ pc[p] = "insert"
  /\ Len(ops'[p]) = Len(ops[p]) + 1
  /\ ops'[p][Len(ops'[p])].op = "insert"
  /\ ops'[p][Len(ops'[p])].res = "dup"

\* C14: a duplicate-key failure of the insert is recoverable.  The step in which
\* the insert of an item is refused for its duplicate url leaves the store as it
\* was, does not abort the invocation, and moves it to the next item of the feed,
\* or to the report when that item was the last.
C14_DupKeyRecoverable ==
  [][\A p \in Procs :
       DupInsertStep(p) =>
         /\ store' = store
         /\ pc'[p] # "aborted"
         /\ i'[p] = i[p] + 1
         /\ pc'[p] = IF i[p] < Len(items[p]) THEN "exists" ELSE "report"]_vars

C14_Witness ==
  \E p \in Procs :
    /\ pc[p] = "done"
    /\ \E k \in CallsFor(p, "insert", 1) : ops[p][k].res = "dup"
    /\ CallsFor(p, "exists", 2) # {}

\* C15: index setup does not affect the items of an invocation that overlaps no
\* other.  Whenever such an invocation is about to insert the record of an item,
\* the store answers the same with and without the unique index, at whatever
\* point ensureIndex has run, succeeded or failed.
C15_IndexIndependence ==
  NonOverlapping =>
    \A p \in Procs :
      pc[p] = "insert" =>
        InsertResults(store, TRUE, items[p][i[p]].link)
          = InsertResults(store, FALSE, items[p][i[p]].link)

\* C16: store sessions are released on every path.  No invocation ends, by its
\* report or by a fatal error, with the session of a tweetItem still open.
C16_SessionsClosed ==
  \A p \in Procs : pc[p] \in {"done", "aborted"} => ~open[p]

\* What follows the k-th call of p: the next call of its history, or the call it
\* is about to make.
FollowedBy(p, k, kind) ==
  IF k < Len(ops[p])
    THEN ops[p][k + 1].op = kind /\ ops[p][k + 1].idx = ops[p][k].idx
    ELSE pc[p] = kind

Main(p) ==
  Dial(p) \/ GetFeedItems(p) \/ Exists(p) \/ PostTweet(p) \/ Insert(p) \/ Report(p)

\* The invocations of one function come one after the other, as lambda.Start
\* serves them; the ensureIndex goroutine of each runs beside it.
NextInTurn == Next /\ NonOverlapping'

LiveSpec == Init /\ [][NextInTurn]_vars /\ \A p \in Procs : WF_vars(Main(p))

\* The invocation of p ended at a fatal condition: its last call is a failed
\* VerifyCredentials, Dial, feed fetch or PostTweet, and it has reported nothing.
AbortedAtFatal(p) ==
  /\ reported[p] = << >>
  /\ ops[p] # << >>
  /\ ops[p][Len(ops[p])].res = "err"
  /\ ops[p][Len(ops[p])].op \in {"verify", "dial", "fetch", "post"}

\* The invocation of p went through every item of the feed once, in feed order,
\* and then reported once.
ProcessedAllThenReported(p) ==
  /\ Len(reported[p]) = 1
  /\ items[p] = feed
  /\ i[p] > Len(items[p])
  /\ \A n \in DOMAIN items[p] : Cardinality(CallsFor(p, "exists", n)) = 1
  /\ \A k1, k2 \in Calls(p, "exists") : k1 < k2 => ops[p][k1].idx < ops[p][k2].idx
  /\ \A k \in DOMAIN ops[p] : ops[p][k].idx \in {0} \cup DOMAIN items[p]

\* C18: every invocation terminates, in one of two ways.  An invocation that has
\* started eventually ends; one that ended by a fatal condition has reported no
\* count; one that ended otherwise has processed every item once, in feed order,
\* and reported once; and a count is reported only by an invocation that has
\* processed its last item.
C18_Termination ==
  /\ [](\A p \in Procs :
          /\ pc[p] = "aborted" => AbortedAtFatal(p)
          /\ pc[p] = "done" => ProcessedAllThenReported(p)
          /\ reported[p] # << >> => pc[p] = "done")
  /\ \A p \in Procs : (pc[p] # "idle") ~> (pc[p] \in {"done", "aborted"})

C18_Witness ==
  /\ \E p \in Procs : pc[p] = "aborted" /\ ops[p][Len(ops[p])].op = "post"
  /\ \E p \in Procs : pc[p] = "done" /\ Len(items[p]) = MaxFeed /\ reported[p] = <<MaxFeed>>

====
